---- MODULE Spec2Model ----
(***************************************************************************)
(* Cognitive-load annotation tool: the store (articles, annotations,       *)
(* difficult passages), the requests that read and write it                *)
(* (next_article, view_article, submit_annotation, export_csv,             *)
(* Article.average_scores) and the article ingestion (seed_articles,       *)
(* upload).                                                                *)
(*                                                                         *)
(* Each request owns a database session.  Rows a session has flushed but   *)
(* not committed live in the request's record; the variables annotations   *)
(* and passages hold the committed rows, which is what every other         *)
(* session's SELECT returns.                                               *)
(***************************************************************************)
EXTENDS Integers, Sequences, FiniteSets, TLC

\* ---------------------------------------------------------------- bounds
NumUsers == 2
NumArticles == 2
NumRequests == 2
MaxPassages == 1
MaxEntries == 2

Users == 1..NumUsers
Requests == 1..NumRequests

VARIABLES
    articles,      \* committed rows of table articles
    annotations,   \* committed rows of table annotations
    passages,      \* committed rows of table difficult_passages
    nextAnnId,     \* next value of annotations.id
    req,           \* per request: position in its handler, session state, response
    export,        \* the export_csv request: rows read so far
    report,        \* result of the last Article.average_scores call
    upload         \* the last upload request: file received and outcome

vars == <<articles, annotations, passages, nextAnnId, req, export, report, upload>>

\* ---------------------------------------------------------------- responses
RespNone == [status |-> 0, error |-> ""]
RespSuccess == [status |-> 200, error |-> ""]
RespRedirectArticle == [status |-> 302, error |-> ""]
RespRatedAll == [status |-> 302, error |-> "You have rated all available articles!"]
RespAlreadyViewed == [status |-> 302, error |-> "You have already rated this article."]
RespNotFound == [status |-> 404, error |-> ""]
RespAlreadyRated == [status |-> 400, error |-> "You have already rated this article"]
RespInvalidData == [status |-> 400, error |-> "Invalid data"]
RespSaveError == [status |-> 500, error |-> "An error occurred while saving"]

\* ---------------------------------------------------------------- request inputs
\* The four scores of a payload: mental_effort, background_knowledge,
\* emotional_drain, clarity.
ScoreChoices == {<<4, 2, 10, 1>>, <<6, 3, 1, 1>>, <<8, 2, 4, 7>>}

\* What is wrong with the score and telemetry fields of a payload, by the
\* exception the constructor call raises on it.
ScoreDefects == {"none", "missing_score", "nonint_score", "bad_telemetry", "wrong_type"}

\* One entry of difficult_passages: well formed, or lacking a key / holding a
\* non-integer offset.
PassageKinds == {"ok", "malformed"}

PassageLists == UNION {[1..n -> PassageKinds] : n \in 0..MaxPassages}

ArticleIds == {a.id : a \in articles}

IdleRequest ==
    [pc |-> "idle", user |-> 0, article |-> 0, scores |-> <<>>, ann |-> 0,
     npass |-> 0, resp |-> RespNone, exc |-> "", alone |-> FALSE, selected |-> FALSE]

\* ---------------------------------------------------------------- the store
\* Annotation.query.filter_by(article_id=a, user_id=u): the committed rows a
\* session reads for that pair.
ExistingWrongColumn(a, u) == {n \in annotations : n.article_id = a /\ n.user_id = a}

ExistingAnyUser(a, u) == {n \in annotations : n.article_id = a}

Existing(a, u) == {n \in annotations : n.article_id = a /\ n.user_id = u}

\* UniqueConstraint('article_id', 'user_id'): does a row of `rows` already hold
\* the pair (a, u)?
KeyTakenUnconstrained(rows, a, u) == FALSE

KeyTaken(rows, a, u) == \E n \in rows : n.article_id = a /\ n.user_id = u

InFlight(q) == req[q].pc \in {"flushed", "added"}

\* The annotation row request q has flushed and not yet committed.
PendingAnnotation(q) ==
    IF InFlight(q)
    THEN {[id |-> req[q].ann, article_id |-> req[q].article, user_id |-> req[q].user,
           scores |-> req[q].scores]}
    ELSE {}

\* The passage rows request q has added to its session.
PendingPassages(q) ==
    IF req[q].pc = "added"
    THEN {[annotation_id |-> req[q].ann, idx |-> i] : i \in 1..req[q].npass}
    ELSE {}

\* Rows other sessions have inserted and not yet committed or rolled back.
UncommittedOthers(r) == UNION {PendingAnnotation(q) : q \in Requests \ {r}}

\* db.session.flush(): what the INSERT leaves in the committed table (nothing:
\* the row stays in the open transaction).
AfterFlushCommitted(row) == annotations \cup {row}

AfterFlush(row) == annotations

\* db.session.rollback(): the committed tables after the open transaction of
\* request r is rolled back.
RollbackKeepsRows(r) ==
    [anns |-> annotations \cup PendingAnnotation(r), pass |-> passages \cup PendingPassages(r)]

RollbackDropsUserRows(r) ==
    [anns |-> {n \in annotations : n.user_id # req[r].user}, pass |-> passages]

Rollback(r) == [anns |-> annotations, pass |-> passages]

\* ---------------------------------------------------------------- Init
Init ==
    /\ articles = {}
    /\ annotations = {}
    /\ passages = {}
    /\ nextAnnId = 1
    /\ req = [r \in Requests |-> IdleRequest]
    /\ export = [pc |-> "idle", anns |-> {}, rows |-> {}]
    /\ report = <<>>
    /\ upload = <<>>

\* Requests take their numbers in the order they arrive.
Arrives(r) ==
    /\ req[r].pc = "idle"
    /\ \A q \in Requests : q < r => req[q].pc # "idle"

Finish(r, resp, exc) ==
    [req EXCEPT ![r].pc = "done", ![r].resp = resp, ![r].exc = exc]

\* flask seed-articles: n sample articles into an empty table.
SeedArticles ==
    /\ Cardinality(articles) = 0
    /\ \E n \in 1..NumArticles :
         articles' = {[id |-> i, title |-> "title", full_text |-> "text",
                       publish_date |-> <<>>] : i \in 1..n}
    /\ UNCHANGED <<annotations, passages, nextAnnId, req, export, report, upload>>

\* ---------------------------------------------------------------- next_article
\* Article LEFT OUTER JOIN Annotation: one row per (article, annotation of it),
\* and one row with a NULL annotation (0) per article without annotations.
JoinRows ==
    {<<p[1].id, p[2].id>> :
        p \in {q \in articles \X annotations : q[2].article_id = q[1].id}}

InnerJoin == JoinRows

OuterJoin ==
    JoinRows
    \cup {<<art.id, 0>> : art \in {b \in articles : \A m \in annotations : m.article_id # b.id}}

\* GROUP BY Article.id with func.count(Annotation.id): NULLs are not counted.
Subquery ==
    {[id |-> g, annotation_count |-> Cardinality({j \in OuterJoin : j[1] = g /\ j[2] # 0})]
       : g \in {j[1] : j \in OuterJoin}}

\* SELECT Annotation.article_id WHERE Annotation.user_id = current_user.id
UserAnnotatedOthers(u) == {n.article_id : n \in {m \in annotations : m.user_id # u}}

UserAnnotated(u) == {n.article_id : n \in {m \in annotations : m.user_id = u}}

\* Article JOIN subquery, filtered by NOT IN user_annotated.
Candidates(u) ==
    {c \in Subquery : c.id \in ArticleIds /\ c.id \notin UserAnnotated(u)}

\* ORDER BY annotation_count ASC, random() and .first(): the rows that can come
\* first, as article ids.
FirstOrderedDesc(rows) ==
    {c.id : c \in {d \in rows : \A e \in rows : d.annotation_count >= e.annotation_count}}

FirstOrdered(rows) ==
    {c.id : c \in {d \in rows : \A e \in rows : d.annotation_count <= e.annotation_count}}

NextArticleResults(u) == FirstOrdered(Candidates(u))

\* GET /article/next by user u.
NextArticle(r, u) ==
    /\ Arrives(r)
    /\ IF NextArticleResults(u) = {}
       THEN req' = [req EXCEPT ![r].pc = "done", ![r].user = u, ![r].resp = RespRatedAll]
       ELSE \E a \in NextArticleResults(u) :
              req' = [req EXCEPT ![r].pc = "assigned", ![r].user = u, ![r].article = a,
                                 ![r].resp = RespRedirectArticle,
                                 \* history: the article came from next_article
                                 ![r].selected = TRUE]
    /\ UNCHANGED <<articles, annotations, passages, nextAnnId, export, report, upload>>

\* GET /article/<id>, following the redirect of next_article.
ViewArticle(r) ==
    /\ req[r].pc = "assigned"
    /\ IF Existing(req[r].article, req[r].user) # {}
       THEN req' = Finish(r, RespAlreadyViewed, "")
       ELSE req' = [req EXCEPT ![r].pc = "viewing", ![r].resp = RespNone]
    /\ UNCHANGED <<articles, annotations, passages, nextAnnId, export, report, upload>>

\* ---------------------------------------------------------------- submit_annotation
\* POST /article/<id>/submit, up to Article.query.get_or_404: a direct POST by
\* user u for article id a, or the form of view_article being posted.
GetArticle(r, u, a) ==
    /\ \/ Arrives(r)
       \/ req[r].pc = "viewing" /\ req[r].user = u /\ req[r].article = a
    /\ LET started == [req[r] EXCEPT !.user = u, !.article = a,
                     \* history: no other request is under way when this one arrives
                     !.alone = \A q \in Requests \ {r} : req[q].pc \in {"idle", "done"}]
       IN IF a \in ArticleIds
          THEN req' = [req EXCEPT ![r] = [started EXCEPT !.pc = "started"]]
          ELSE req' = [req EXCEPT ![r] = [started EXCEPT !.pc = "done", !.resp = RespNotFound]]
    /\ UNCHANGED <<articles, annotations, passages, nextAnnId, export, report, upload>>

\* The application-level pre-check.
PreCheck(r) ==
    /\ req[r].pc = "started"
    /\ IF Existing(req[r].article, req[r].user) # {}
       THEN req' = Finish(r, RespAlreadyRated, "")
       ELSE req' = [req EXCEPT ![r].pc = "checked"]
    /\ UNCHANGED <<articles, annotations, passages, nextAnnId, export, report, upload>>

\* The exception Annotation(...) raises on a payload with the given defect.
ConstructorError(d) ==
    CASE d = "missing_score" -> "KeyError"
      [] d = "nonint_score" -> "ValueError"
      [] d = "bad_telemetry" -> "ValueError"
      [] d = "wrong_type" -> "TypeError"
      [] OTHER -> ""

\* The except clauses of submit_annotation.
ErrorResponse(exc) ==
    IF exc \in {"KeyError", "ValueError"} THEN RespInvalidData ELSE RespSaveError

\* An exception reaches the except clauses: the session's pending objects are
\* expunged by the rollback and the error response is returned.
Fail(r, exc) ==
    /\ req' = [Finish(r, ErrorResponse(exc), exc) EXCEPT ![r].scores = <<>>,
                  ![r].ann = 0, ![r].npass = 0]
    /\ annotations' = Rollback(r).anns
    /\ passages' = Rollback(r).pass

\* request.get_json(), Annotation(...), db.session.add, db.session.flush.
Flush(r) ==
    /\ req[r].pc = "checked"
    /\ \E d \in ScoreDefects, s \in ScoreChoices :
         LET row == [id |-> nextAnnId, article_id |-> req[r].article,
                     user_id |-> req[r].user, scores |-> s]
         IN \/ /\ d # "none"
               /\ Fail(r, ConstructorError(d))
               /\ UNCHANGED nextAnnId
            \/ /\ d = "none"
               /\ Fail(r, "OperationalError")
               /\ UNCHANGED nextAnnId
            \/ /\ d = "none"
               /\ KeyTaken(annotations, row.article_id, row.user_id)
               /\ Fail(r, "IntegrityError")
               /\ UNCHANGED nextAnnId
            \/ /\ d = "none"
               /\ ~KeyTaken(annotations, row.article_id, row.user_id)
               \* a concurrent uncommitted insert of the same key holds the index
               \* entry: this INSERT waits for that transaction to end
               /\ ~KeyTaken(UncommittedOthers(r), row.article_id, row.user_id)
               /\ req' = [req EXCEPT ![r].pc = "flushed", ![r].ann = nextAnnId,
                                     ![r].scores = s]
               /\ annotations' = AfterFlush(row)
               /\ nextAnnId' = nextAnnId + 1
               /\ UNCHANGED passages
    /\ UNCHANGED <<articles, export, report, upload>>

\* The loop over data.get('difficult_passages', []).
AddPassages(r) ==
    /\ req[r].pc = "flushed"
    /\ \E pl \in PassageLists :
         IF \E i \in DOMAIN pl : pl[i] = "malformed"
         THEN Fail(r, "ValueError")
         ELSE /\ req' = [req EXCEPT ![r].pc = "added", ![r].npass = Len(pl)]
              /\ UNCHANGED <<annotations, passages>>
    /\ UNCHANGED <<articles, nextAnnId, export, report, upload>>

\* db.session.commit(): the passage INSERTs are flushed and the transaction
\* commits, or the store fails and the transaction is rolled back.
Commit(r) ==
    /\ req[r].pc = "added"
    /\ \/ /\ annotations' = annotations \cup PendingAnnotation(r)
          /\ passages' = passages \cup PendingPassages(r)
          /\ req' = Finish(r, RespSuccess, "")
       \/ Fail(r, "OperationalError")
    /\ UNCHANGED <<articles, nextAnnId, export, report, upload>>

\* ---------------------------------------------------------------- export_csv
\* Annotation.query.all(): one SELECT over the committed annotations.
ExportBegin ==
    /\ export.pc = "idle"
    /\ report = <<>>
    /\ upload = <<>>
    /\ export' = [pc |-> "rows", anns |-> annotations, rows |-> {}]
    /\ UNCHANGED <<articles, annotations, passages, nextAnnId, req, report, upload>>

ExportPending == {a \in export.anns : \A w \in export.rows : w.annotation_id # a.id}

\* One turn of the loop: a.difficult_passages is a lazy relationship, a SELECT
\* of its own over the committed passages.
ExportRow ==
    /\ export.pc = "rows"
    /\ \E a \in ExportPending :
         /\ \A b \in ExportPending : a.id <= b.id
         /\ export' = [export EXCEPT !.rows = @ \cup
                {[annotation_id |-> a.id,
                  passages |-> {p.idx : p \in {q \in passages : q.annotation_id = a.id}}]}]
    /\ UNCHANGED <<articles, annotations, passages, nextAnnId, req, report, upload>>

\* The CSV is returned.
ExportEnd ==
    /\ export.pc = "rows"
    /\ ExportPending = {}
    /\ export' = [pc |-> "idle", anns |-> {}, rows |-> {}]
    /\ UNCHANGED <<articles, annotations, passages, nextAnnId, req, report, upload>>

\* ---------------------------------------------------------------- Article.average_scores
RECURSIVE SumScore(_, _)
\* sum(a.<score k> for a in rows)
SumScore(rows, k) ==
    IF rows = {} THEN 0
    ELSE LET x == CHOOSE y \in rows : TRUE
         IN x.scores[k] + SumScore(rows \ {x}, k)

\* self.annotations.all()
ArticleAnnotations(a) == {n \in annotations : n.article_id = a}

\* The quotient sum / len as the fraction it is.
MeanZeroWhenEmpty(rows, k) ==
    IF rows = {} THEN [num |-> 0, den |-> 1]
    ELSE [num |-> SumScore(rows, k), den |-> Cardinality(rows)]

Mean(rows, k) == [num |-> SumScore(rows, k), den |-> Cardinality(rows)]

average_scores_zero(a) ==
    [nodata |-> FALSE, means |-> [k \in 1..4 |-> MeanZeroWhenEmpty(ArticleAnnotations(a), k)]]

average_scores(a) ==
    IF ArticleAnnotations(a) = {}
    THEN [nodata |-> TRUE, means |-> <<>>]
    ELSE [nodata |-> FALSE, means |-> [k \in 1..4 |-> Mean(ArticleAnnotations(a), k)]]

\* A page of the admin calls article.average_scores().  The pages outside the
\* annotation flow (averages, dashboard, export, upload) are requested one at a
\* time.
AverageScores(a) ==
    /\ report = <<>>
    /\ export.pc = "idle"
    /\ upload = <<>>
    /\ a \in ArticleIds
    /\ report' = <<[article |-> a, result |-> average_scores(a)]>>
    /\ UNCHANGED <<articles, annotations, passages, nextAnnId, req, export, upload>>

\* The page is rendered and returned.
Render ==
    /\ report # <<>>
    /\ report' = <<>>
    /\ UNCHANGED <<articles, annotations, passages, nextAnnId, req, export, upload>>

\* GET /dashboard by user u: the user's annotations are counted and averaged,
\* the articles are counted.
Dashboard(u) ==
    /\ report = <<>>
    /\ export.pc = "idle"
    /\ upload = <<>>
    /\ LET user_annotations == {n \in annotations : n.user_id = u}
           total_annotations == Cardinality(user_annotations)
       IN report' = <<[user |-> u,
                       total_annotations |-> total_annotations,
                       avg_scores |->
                           IF total_annotations > 0
                           THEN [k \in 1..4 |-> Mean(user_annotations, k)]
                           ELSE <<>>,
                       articles_remaining |-> Cardinality(articles) - total_annotations]>>
    /\ UNCHANGED <<articles, annotations, passages, nextAnnId, req, export, upload>>

\* ---------------------------------------------------------------- upload
\* A publish_date value of an entry: absent (None), the empty string, a JSON
\* number, or a string: three fields in the order written, with the separator
\* between them ("-", "/", "long" for 'Month D, Y', "text" for any other text).
DateNone == [kind |-> "none", sep |-> "", f |-> <<>>]
DateEmpty == [kind |-> "empty", sep |-> "", f |-> <<>>]
DateNumber == [kind |-> "number", sep |-> "", f |-> <<>>]
DateText(sep, f) == [kind |-> "text", sep |-> sep, f |-> f]

DateInputs ==
    {DateNone, DateEmpty, DateNumber,
     DateText("-", <<2023, 2, 13>>), DateText("-", <<2023, 2, 30>>),
     DateText("/", <<2, 3, 2023>>), DateText("/", <<13, 2, 2023>>),
     DateText("/", <<31, 2, 2023>>), DateText("long", <<2, 13, 2023>>),
     DateText("text", <<>>)}

\* A field of an entry: a string, no such key / column, or null (a JSON null,
\* or a CSV row too short to reach the column).
FieldKinds == {"present", "absent", "null"}

Entries == [title : FieldKinds, full_text : {"present", "absent"}, publish_date : DateInputs]

\* The lists of n entries.
EntryLists(n) == [1..n -> Entries]

\* The uploaded files, by extension and content: a JSON array, a JSON object
\* with an "articles" key or a CSV, of n entries; text that is not JSON, JSON
\* of another shape, or a file of another extension.
Files(n) ==
    {[shape |-> sh, entries |-> es] :
        sh \in {"json_list", "json_object", "csv"}, es \in EntryLists(n)}
    \cup {[shape |-> sh, entries |-> <<>>] : sh \in {"json_syntax", "json_other", "unsupported"}}

IsLeap(y) == (y % 4 = 0 /\ y % 100 # 0) \/ y % 400 = 0

DaysIn(y, m) ==
    IF m = 2 THEN (IF IsLeap(y) THEN 29 ELSE 28)
    ELSE IF m \in {4, 6, 9, 11} THEN 30 ELSE 31

ValidDate(y, m, d) == y \in 1..9999 /\ m \in 1..12 /\ d \in 1..DaysIn(y, m)

\* datetime.strptime(date_str, fmt).date() for the four formats, in the order
\* parse_date tries them: <<y, m, d>>, or <<>> for ValueError.
Strptime(d, fmt) ==
    CASE fmt = 1 /\ d.sep = "-" /\ ValidDate(d.f[1], d.f[2], d.f[3]) -> <<d.f[1], d.f[2], d.f[3]>>
      [] fmt = 2 /\ d.sep = "/" /\ ValidDate(d.f[3], d.f[1], d.f[2]) -> <<d.f[3], d.f[1], d.f[2]>>
      [] fmt = 3 /\ d.sep = "/" /\ ValidDate(d.f[3], d.f[2], d.f[1]) -> <<d.f[3], d.f[2], d.f[1]>>
      [] fmt = 4 /\ d.sep = "long" /\ ValidDate(d.f[3], d.f[1], d.f[2]) -> <<d.f[3], d.f[1], d.f[2]>>
      [] OTHER -> <<>>

\* parse_date: [raised, value]; value <<>> is None.  A value that is not a
\* string makes strptime raise TypeError, which the loop does not catch.
parse_date(d) ==
    IF d.kind \in {"none", "empty"} THEN [raised |-> FALSE, value |-> <<>>]
    ELSE IF d.kind = "number" THEN [raised |-> TRUE, value |-> <<>>]
    ELSE LET hits == {fmt \in 1..4 : Strptime(d, fmt) # <<>>}
         IN IF hits = {} THEN [raised |-> FALSE, value |-> <<>>]
            ELSE [raised |-> FALSE,
                  value |-> Strptime(d, CHOOSE fmt \in hits : \A g \in hits : fmt <= g)]

\* parse_json_articles / parse_csv_articles: does the file yield a list of
\* article_data?
ParseRaises(file) == file.shape \in {"json_syntax", "json_other"}

\* The value article_data[key] the loop reads: parse_csv_articles has filled a
\* missing column with '', a JSON entry without the key raises KeyError.
LookupRaises(file, kind) == file.shape # "csv" /\ kind = "absent"

FieldValue(kind) ==
    CASE kind = "present" -> "str"
      [] kind = "absent" -> ""
      [] OTHER -> "None"

\* In a CSV every value is text: a number is a string of digits no format matches.
DateOf(file, e) ==
    IF file.shape = "csv" /\ e.publish_date.kind = "number"
    THEN DateText("text", <<>>)
    ELSE e.publish_date

\* Article(...) for one entry raises: a key is missing or parse_date raised.
EntryRaises(file, e) ==
    \/ LookupRaises(file, e.title)
    \/ LookupRaises(file, e.full_text)
    \/ parse_date(DateOf(file, e)).raised

\* The rows the loop adds to the session, ids following the table's.
NewArticles(file) ==
    {[id |-> Cardinality(articles) + i,
      title |-> FieldValue(file.entries[i].title),
      full_text |-> FieldValue(file.entries[i].full_text),
      publish_date |-> parse_date(DateOf(file, file.entries[i])).value]
       : i \in DOMAIN file.entries}

\* db.session.commit() raises: a NOT NULL column holds None.
CommitRaises(rows) == \E a \in rows : a.title = "None" \/ a.full_text = "None"

\* POST /admin/upload with a file.
Upload(file) ==
    /\ upload = <<>>
    /\ report = <<>>
    /\ export.pc = "idle"
    /\ Cardinality(articles) + Len(file.entries) <= NumArticles
    /\ IF file.shape = "unsupported"
       THEN /\ articles' = articles
            /\ upload' = <<[file |-> file, outcome |-> "unsupported", before |-> articles]>>
       ELSE IF \/ ParseRaises(file)
               \/ \E i \in DOMAIN file.entries : EntryRaises(file, file.entries[i])
               \/ CommitRaises(NewArticles(file))
            THEN /\ articles' = articles
                 /\ upload' = <<[file |-> file, outcome |-> "error", before |-> articles]>>
            ELSE /\ articles' = articles \cup NewArticles(file)
                 /\ upload' = <<[file |-> file, outcome |-> "added", before |-> articles]>>
    /\ UNCHANGED <<annotations, passages, nextAnnId, req, export, report>>

\* The redirect to the upload page is followed: the request is over.
UploadDone ==
    /\ upload # <<>>
    /\ upload' = <<>>
    /\ UNCHANGED <<articles, annotations, passages, nextAnnId, req, export, report>>

NextUpload ==
    \/ \E n \in 0..MaxEntries : \E file \in Files(n) : Upload(file)
    \/ UploadDone

SpecUpload == Init /\ [][NextUpload]_vars

Next ==
    \/ SeedArticles
    \/ \E r \in Requests, u \in Users : NextArticle(r, u)
    \/ \E r \in Requests : ViewArticle(r)
    \/ \E r \in Requests, u \in Users, a \in 1..NumArticles : GetArticle(r, u, a)
    \/ \E r \in Requests : PreCheck(r)
    \/ \E r \in Requests : Flush(r)
    \/ \E r \in Requests : AddPassages(r)
    \/ \E r \in Requests : Commit(r)
    \/ ExportBegin
    \/ ExportRow
    \/ ExportEnd

Spec == Init /\ [][Next]_vars

\* ---------------------------------------------------------------- the read-side queries
\* The store after n articles were seeded and the pairs K of (user, article)
\* each had one successful submission (without passages) with the scores f.
CommittedStore(n, K, f) ==
    /\ articles = {[id |-> i, title |-> "title", full_text |-> "text",
                    publish_date |-> <<>>] : i \in 1..n}
    /\ annotations = {[id |-> (k[1] - 1) * NumArticles + k[2], article_id |-> k[2],
                       user_id |-> k[1], scores |-> f[k]] : k \in K}
    /\ passages = {}
    /\ nextAnnId = NumUsers * NumArticles + 1
    /\ req = [r \in Requests |-> IdleRequest]
    /\ export = [pc |-> "idle", anns |-> {}, rows |-> {}]
    /\ report = <<>>
    /\ upload = <<>>

\* next_article over every such store (the scores play no part in it).
InitNextArticle ==
    \E n \in 0..NumArticles : \E K \in SUBSET (Users \X (1..n)) :
        CommittedStore(n, K, [k \in K |-> <<6, 3, 1, 1>>])

SpecNextArticle ==
    InitNextArticle /\ [][\E r \in Requests, u \in Users : NextArticle(r, u)]_vars

\* average_scores over every such store.
InitAverages ==
    \E n \in 0..NumArticles : \E K \in SUBSET (Users \X (1..n)) :
        \E f \in [K -> ScoreChoices] : CommittedStore(n, K, f)

NextAverages ==
    \/ \E a \in 1..NumArticles : AverageScores(a)
    \/ Render

SpecAverages == InitAverages /\ [][NextAverages]_vars

\* ---------------------------------------------------------------- every operation together
\* The files uploaded while annotators are at work: one article as a JSON
\* array, a CSV whose row is too short to reach the title column, a JSON array
\* whose entry lacks its title, text that is not JSON, and a file of another
\* extension.
FrameFiles ==
    {[shape |-> "json_list", entries |-> <<[title |-> "present", full_text |-> "present",
                                            publish_date |-> DateNone]>>],
     [shape |-> "csv", entries |-> <<[title |-> "null", full_text |-> "present",
                                      publish_date |-> DateText("text", <<>>)]>>],
     [shape |-> "json_list", entries |-> <<[title |-> "absent", full_text |-> "present",
                                            publish_date |-> DateNone]>>],
     [shape |-> "json_syntax", entries |-> <<>>],
     [shape |-> "unsupported", entries |-> <<>>]}

\* The web application at work: the annotators' requests and the pages outside
\* the annotation flow, on a corpus that comes from uploads.
NextFrame ==
    \/ \E r \in Requests, u \in Users : NextArticle(r, u)
    \/ \E r \in Requests : ViewArticle(r)
    \/ \E r \in Requests, u \in Users, a \in 1..NumArticles : GetArticle(r, u, a)
    \/ \E r \in Requests : PreCheck(r)
    \/ \E r \in Requests : Flush(r)
    \/ \E r \in Requests : AddPassages(r)
    \/ \E r \in Requests : Commit(r)
    \/ ExportBegin
    \/ ExportRow
    \/ ExportEnd
    \/ \E a \in 1..NumArticles : AverageScores(a)
    \/ Render
    \/ \E u \in Users : Dashboard(u)
    \/ \E file \in FrameFiles : Upload(file)
    \/ UploadDone

SpecFrame == Init /\ [][NextFrame]_vars

\* ================================================================ properties
SameKey(r, q) == req[r].article = req[q].article /\ req[r].user = req[q].user

Succeeded(q) == req[q].pc = "done" /\ req[q].resp = RespSuccess

\* The request that inserted the annotation row with this id.
Creators(id) == {r \in Requests : req[r].ann = id}

PassagesOf(id) == {p.idx : p \in {q \in passages : q.annotation_id = id}}

\* C1: the committed annotations never hold two rows for one (article, user)
\* pair, whatever the interleaving of the submissions.
C1_UniquePerArticleUser ==
    \A x \in annotations, y \in annotations :
        (x.article_id = y.article_id /\ x.user_id = y.user_id) => x = y

\* Two submissions for one pair both passed the pre-check; one committed and the
\* other was stopped by the constraint at its INSERT.
C1_Witness ==
    \E r \in Requests, q \in Requests :
        /\ r # q
        /\ SameKey(r, q)
        /\ Succeeded(r)
        /\ req[q].pc = "done"
        /\ req[q].exc = "IntegrityError"

\* C2: of two submissions for one pair run one after the other, the first
\* (valid payload, store working, no competing submission) succeeds, the second
\* is rejected at the pre-check as a conflict and leaves the store as it was,
\* holding exactly the row and the passages of the first.
C2_FirstSucceeds(q) ==
    (/\ req[q].pc \in {"checked", "flushed", "added"}
     /\ req'[q].pc = "done"
     /\ req'[q].exc \notin {"KeyError", "ValueError", "TypeError", "OperationalError"}
     /\ \A p \in Requests \ {q} :
            SameKey(p, q) => ~(req[p].pc \in {"checked", "flushed", "added"} \/ Succeeded(p)))
    => /\ req'[q].resp = RespSuccess
       /\ {n \in annotations' : n.article_id = req[q].article /\ n.user_id = req[q].user}
            = {[id |-> req[q].ann, article_id |-> req[q].article,
                user_id |-> req[q].user, scores |-> req[q].scores]}
       /\ {p.idx : p \in {x \in passages' : x.annotation_id = req[q].ann}} = 1..req[q].npass

C2_SecondRejected(r) ==
    (/\ req[r].pc = "started"
     /\ req'[r].pc # "started"
     /\ \E q \in Requests \ {r} : SameKey(q, r) /\ Succeeded(q))
    => /\ req'[r].pc = "done"
       /\ req'[r].resp = RespAlreadyRated
       /\ annotations' = annotations
       /\ passages' = passages
       /\ \E q \in Requests \ {r} :
            /\ SameKey(q, r) /\ Succeeded(q)
            /\ {n \in annotations' : n.article_id = req[r].article /\ n.user_id = req[r].user}
                 = {[id |-> req[q].ann, article_id |-> req[q].article,
                     user_id |-> req[q].user, scores |-> req[q].scores]}
            /\ {p.idx : p \in {x \in passages' : x.annotation_id = req[q].ann}}
                 = 1..req[q].npass

C2_SequentialDuplicate ==
    [][\A r \in Requests : C2_FirstSucceeds(r) /\ C2_SecondRejected(r)]_vars

\* The second submission arrived after the first had returned, and was rejected.
C2_Witness ==
    \E r \in Requests, q \in Requests :
        /\ r # q
        /\ SameKey(r, q)
        /\ Succeeded(q)
        /\ req[q].npass >= 1
        /\ req[r].alone
        /\ req[r].pc = "done"
        /\ req[r].resp = RespAlreadyRated
        /\ Cardinality(Existing(req[r].article, req[r].user)) = 1

\* Every committed annotation is there with the whole passage list of the
\* request that wrote it, and every committed passage has its annotation.
CompleteUnits ==
    /\ \A n \in annotations :
         \E r \in Creators(n.id) :
            /\ Succeeded(r)
            /\ PassagesOf(n.id) = 1..req[r].npass
    /\ \A p \in passages : \E n \in annotations : n.id = p.annotation_id

\* C3: a submission that ends in anything but success leaves the committed
\* annotations and passages as they were, and no annotation without its full
\* passage list or passage without its annotation is ever committed.
C3_FailureLeavesStore ==
    [][/\ \A r \in Requests :
            (req[r].pc # "done" /\ req'[r].pc = "done" /\ req'[r].resp # RespSuccess)
            => (annotations' = annotations /\ passages' = passages)
       /\ (annotations' # annotations \/ passages' # passages)
            => \E r \in Requests : req[r].pc = "added" /\ Succeeded(r)'
       /\ CompleteUnits']_vars

\* A submission failed after its annotation row had been flushed (the id was
\* drawn), and nothing of it is committed.
C3_Witness ==
    /\ nextAnnId = 2
    /\ annotations = {}
    /\ passages = {}
    /\ \E r \in Requests : req[r].pc = "done" /\ req[r].resp = RespInvalidData
    /\ \A r \in Requests : req[r].pc \in {"idle", "done"}

\* C4: next_article never redirects a user to an article the user has an
\* annotation for in the store it reads.
C4_NeverAnnotated ==
    [][\A r \in Requests :
          (req[r].pc = "idle" /\ req'[r].pc = "assigned")
          => ~\E n \in annotations :
                n.article_id = req'[r].article /\ n.user_id = req'[r].user]_vars

\* A user with an annotation has been given another article.
C4_Witness ==
    \E r \in Requests :
        /\ req[r].pc = "assigned"
        /\ \E n \in annotations : n.user_id = req[r].user /\ n.article_id # req[r].article

\* Articles user u has no annotation for, and the number of annotations of an
\* article over all users.
Unannotated(u) ==
    {a \in ArticleIds : ~\E n \in annotations : n.article_id = a /\ n.user_id = u}

TotalCount(a) == Cardinality({n \in annotations : n.article_id = a})

MinCountUnannotated(u) ==
    {a \in Unannotated(u) : \A b \in Unannotated(u) : TotalCount(a) <= TotalCount(b)}

\* C5: the articles next_article can return for a user are exactly the articles
\* the user has not annotated whose total annotation count is minimal among
\* them, and the article it does return is one of these.
C5_MinimumCount ==
    /\ [](\A u \in Users : NextArticleResults(u) = MinCountUnannotated(u))
    /\ [][\A r \in Requests :
            (req[r].pc = "idle" /\ req'[r].pc = "assigned")
            => req'[r].article \in MinCountUnannotated(req'[r].user)]_vars

\* A user was given an article while another candidate had more annotations.
C5_Witness ==
    \E r \in Requests :
        /\ req[r].pc = "assigned"
        /\ \E b \in Unannotated(req[r].user) : TotalCount(b) > TotalCount(req[r].article)

\* C6: next_article answers "rated all" exactly when the user has an annotation
\* for every article of the corpus, and otherwise redirects to an article.
C6_NoCandidateIff ==
    [][\A r \in Requests :
          (req[r].pc = "idle" /\ req'[r].resp \in {RespRatedAll, RespRedirectArticle})
          => /\ (req'[r].resp = RespRatedAll) <=> (Unannotated(req'[r].user) = {})
             /\ (req'[r].resp = RespRedirectArticle) => (req'[r].article \in ArticleIds)]_vars

\* A user who has annotated the whole (non-empty) corpus was told so.
C6_Witness ==
    \E r \in Requests :
        /\ req[r].pc = "done"
        /\ req[r].resp = RespRatedAll
        /\ ArticleIds # {}
        /\ Unannotated(req[r].user) = {}

\* C7: a submission rejected because the pair already has an annotation gets a
\* response that differs from the validation error's and from the storage
\* failure's, whether the pre-check or the constraint found the duplicate.
C7_ConflictDistinct ==
    \A r \in Requests :
        (req[r].pc = "done" /\ (req[r].resp = RespAlreadyRated \/ req[r].exc = "IntegrityError"))
        => /\ req[r].resp # ErrorResponse("ValueError")
           /\ req[r].resp # ErrorResponse("OperationalError")

\* C8: no reader sees a submission's rows while its transaction is open, and
\* what a reader sees of an annotation is the annotation with all its passages:
\* in the committed tables and in the rows export_csv has read.
C8_NoPartialRead ==
    /\ CompleteUnits
    /\ \A r \in Requests :
         InFlight(r) =>
            /\ \A n \in annotations \cup export.anns : n.id # req[r].ann
            /\ \A p \in passages : p.annotation_id # req[r].ann
    /\ \A w \in export.rows :
         \E r \in Creators(w.annotation_id) :
            Succeeded(r) /\ w.passages = 1..req[r].npass

\* export_csv has read a row while a submission with a passage is mid-write.
C8_Witness ==
    /\ export.pc = "rows"
    /\ export.rows # {}
    /\ \E r \in Requests : req[r].pc = "added" /\ req[r].npass >= 1

\* The sum of score k over the annotations of article a, taken id by id.
RECURSIVE TotalByIds(_, _, _)
TotalByIds(a, k, i) ==
    IF i = 0 THEN 0
    ELSE LET rows == {n \in annotations : n.id = i /\ n.article_id = a}
         IN (IF rows = {} THEN 0 ELSE (CHOOSE n \in rows : TRUE).scores[k])
            + TotalByIds(a, k, i - 1)

AveragesCorrect(rep) ==
    LET n == TotalCount(rep.article)
    IN /\ rep.result.nodata <=> (n = 0)
       /\ n > 0 =>
            /\ DOMAIN rep.result.means = 1..4
            /\ \A k \in 1..4 :
                 /\ rep.result.means[k].den > 0
                 /\ rep.result.means[k].num * n
                      = TotalByIds(rep.article, k, nextAnnId - 1) * rep.result.means[k].den

\* C9: average_scores gives "no data" exactly for an article without
\* annotations, and otherwise, for each of the four scores, the sum over the
\* article's annotations divided by their number.
C9_Averages ==
    [][(report = <<>> /\ report' # <<>>) => AveragesCorrect(report'[1])]_vars

\* The averages of an article with two annotations have been computed.
C9_Witness ==
    /\ report # <<>>
    /\ ~report[1].result.nodata
    /\ report[1].result.means[1].den = 2
    /\ report[1].result.means[1].num \in {10, 12, 14}

\* An entry the claim counts as one that can be turned into an Article: it has
\* a title and a full_text.
HasRequiredFields(e) == e.title = "present" /\ e.full_text = "present"

\* A publish_date that is given and is in none of the accepted formats
\* YYYY-MM-DD, MM/DD/YYYY, DD/MM/YYYY, Month DD, YYYY.
InNoAcceptedFormat(d) ==
    \/ d.kind = "number"
    \/ /\ d.kind = "text"
       /\ ~(d.sep = "-" /\ ValidDate(d.f[1], d.f[2], d.f[3]))
       /\ ~(d.sep = "/" /\ (ValidDate(d.f[3], d.f[1], d.f[2]) \/ ValidDate(d.f[3], d.f[2], d.f[1])))
       /\ ~(d.sep = "long" /\ ValidDate(d.f[3], d.f[1], d.f[2]))

WellFormed(file) == file.shape \in {"json_list", "json_object", "csv"}

\* C10: an upload is all or nothing (a malformed file, or an entry without
\* title or full_text, leaves the corpus unchanged), and an entry whose
\* publish_date is in none of the accepted formats does not fail the batch: it
\* is stored with no date.
C10_UploadAllOrNothing ==
    upload # <<>> =>
      LET up == upload[1]
          es == up.file.entries
      IN /\ up.outcome # "added" => articles = up.before
         /\ (~WellFormed(up.file) \/ \E i \in DOMAIN es : ~HasRequiredFields(es[i]))
               => articles = up.before
         /\ (WellFormed(up.file) /\ \A i \in DOMAIN es : HasRequiredFields(es[i]))
               => /\ up.outcome = "added"
                  /\ \A i \in DOMAIN es :
                       InNoAcceptedFormat(es[i].publish_date) =>
                          \E a \in articles \ up.before :
                             a.id = Cardinality(up.before) + i /\ a.publish_date = <<>>

\* The four tables' worth of state a request can write.
Store == <<articles, annotations, passages, nextAnnId>>

\* C11: no step of any operation (next_article, view_article, dashboard and
\* aggregation queries, export, upload, a successful or failed
\* submit_annotation) removes or changes a committed annotation or a committed
\* passage, or adds a passage to an annotation already committed: the committed
\* rows only grow.  The steps of next_article, of the dashboard and of
\* average_scores leave articles, annotations, passages and the id sequence as
\* they were.
C11_CommittedRowsKept ==
    [][/\ annotations \subseteq annotations'
       /\ passages \subseteq passages'
       /\ \A n \in annotations :
             {p \in passages' : p.annotation_id = n.id} = {p \in passages : p.annotation_id = n.id}
       /\ (\E r \in Requests :
              req[r].pc = "idle" /\ req'[r].resp \in {RespRatedAll, RespRedirectArticle})
            => Store' = Store
       /\ report' # report => Store' = Store]_vars

\* An annotation with a passage is committed; with it in the store a second
\* submission for its pair was rejected, and an upload has added an article.
C11_Witness ==
    /\ \E n \in annotations :
          /\ PassagesOf(n.id) # {}
          /\ \E r \in Requests :
                /\ req[r].pc = "done"
                /\ req[r].resp = RespAlreadyRated
                /\ req[r].article = n.article_id
                /\ req[r].user = n.user_id
    /\ upload # <<>>
    /\ upload[1].outcome = "added"

\* The payload of request r was valid and the store did not fail under it.
ValidAndStored(exc) == exc \notin {"KeyError", "ValueError", "TypeError", "OperationalError"}

\* C12: a user's submission for the article next_article selected for that
\* user, sent with a valid payload to a working store, succeeds and commits its
\* row unless another submission of the same user for the same article has
\* committed since the selection; it is never turned away by the pre-check or
\* by the constraint because of what other users submitted, for this article
\* or any other.
C12_SelectedSubmitSucceeds ==
    [][\A r \in Requests :
          (/\ req[r].selected
           /\ req[r].pc \in {"started", "checked", "flushed", "added"}
           /\ req'[r].pc = "done"
           /\ ValidAndStored(req'[r].exc)
           /\ ~\E q \in Requests \ {r} : SameKey(q, r) /\ Succeeded(q))
          => /\ req'[r].resp = RespSuccess
             /\ \E n \in annotations' :
                   /\ n.id = req[r].ann
                   /\ n.article_id = req[r].article
                   /\ n.user_id = req[r].user]_vars

\* A user was given an article; after that another user's submission for the
\* same article arrived and inserted its row first, and both succeeded.
C12_Witness ==
    \E r \in Requests, q \in Requests :
        /\ r < q
        /\ req[r].selected
        /\ Succeeded(r)
        /\ Succeeded(q)
        /\ req[q].article = req[r].article
        /\ req[q].user # req[r].user
        /\ req[q].ann < req[r].ann

====
